---- MODULE Spec2Model ----
(***************************************************************************)
(* A model of lib/Evaluator.py: the IoU geometry, the greedy PASCAL VOC    *)
(* matcher of GetPascalVOCMetrics, the precision/recall curve, the two    *)
(* average-precision interpolations, and the relative metrics              *)
(* GetRelativeMetrics_F1 and GetRelativeMetrics_mAP.                       *)
(*                                                                         *)
(* Numbers.  The code computes with Python/numpy floats.  The model uses   *)
(* exact rationals <<n, d>> in lowest terms with d > 0, and <<0, 0>> for   *)
(* the float NaN (numpy's 0/0).  For the small integers of the model the   *)
(* order and equality tests of the code give the same answers on floats    *)
(* and on rationals.                                                       *)
(***************************************************************************)
EXTENDS Integers, Sequences, FiniteSets, TLC

VARIABLES
    \* ---- Evaluator.GetPascalVOCMetrics
    groundTruths,   \* [imageName, class, 1, box] of every ground truth, input order
    detections,     \* [imageName, class, confidence, box] of every detection
    IOUThreshold,   \* argument IOUThreshold
    method,         \* argument method
    pc,             \* position of the running call
    ci,             \* position of the loop `for c in classes`
    dects,          \* detections of class c, by decreasing confidence
    gts,            \* image name -> ground truths of class c
    npos,           \* number of ground truths of class c
    TP, FP,         \* per detection flags
    det,            \* image name -> 'seen' flags of its ground truths
    d,              \* position of the loop `for d in range(len(dects))`
    jmax,           \* local jmax (0: not bound yet); one per call, not per class
    ret,            \* the list of class records
    err,            \* the exception that ended the call, "" if none
    \* ---- Evaluator.CalculateAveragePrecision / ElevenPointInterpolatedAP
    rec, prec,      \* arguments
    apResult,       \* returned value
    \* ---- Evaluator.iou
    boxA, boxB,     \* arguments
    iouResult,      \* returned value or raised exception
    \* ---- Evaluator.GetRelativeMetrics_F1 / GetRelativeMetrics_mAP
    boundingboxes,  \* boundingboxes.getBoundingBoxes(), input order
    bb_image_gt,    \* image name -> kept reference boxes
    bb_image_det,   \* image name -> kept detections
    detected_frames_lst     \* images the evaluated detector has a box in

vars == <<groundTruths, detections, IOUThreshold, method, pc, ci, dects, gts,
          npos, TP, FP, det, d, jmax, ret, err, rec, prec, apResult,
          boxA, boxB, iouResult,
          boundingboxes, bb_image_gt, bb_image_det, detected_frames_lst>>

vocVars == <<groundTruths, detections, IOUThreshold, method, ci, dects, gts,
             npos, TP, FP, det, d, jmax, ret, err>>
apVars == <<rec, prec, apResult>>
iouVars == <<boxA, boxB, iouResult>>
relVars == <<boundingboxes, bb_image_gt, bb_image_det, detected_frames_lst>>

-----------------------------------------------------------------------------
(* Rational arithmetic standing for the float arithmetic of the code.      *)

Abs(x) == IF x < 0 THEN -x ELSE x

RECURSIVE GCD(_, _)
GCD(a, b) == IF b = 0 THEN a ELSE GCD(b, a % b)

NaN == <<0, 0>>
IsNaN(q) == q[2] = 0

\* n/m in lowest terms, m # 0
Frac(n, m) ==
    LET g == GCD(Abs(n), Abs(m))
        s == IF m < 0 THEN -1 ELSE 1
    IN  <<(s * n) \div g, (s * m) \div g>>

Zero == <<0, 1>>
One == <<1, 1>>

RAdd(p, q) == IF IsNaN(p) \/ IsNaN(q) THEN NaN
              ELSE Frac(p[1] * q[2] + q[1] * p[2], p[2] * q[2])
RSub(p, q) == IF IsNaN(p) \/ IsNaN(q) THEN NaN
              ELSE Frac(p[1] * q[2] - q[1] * p[2], p[2] * q[2])
RMul(p, q) == IF IsNaN(p) \/ IsNaN(q) THEN NaN
              ELSE Frac(p[1] * q[1], p[2] * q[2])
\* every comparison with NaN is false, except !=
RGe(p, q) == ~IsNaN(p) /\ ~IsNaN(q) /\ p[1] * q[2] >= q[1] * p[2]
RGt(p, q) == ~IsNaN(p) /\ ~IsNaN(q) /\ p[1] * q[2] > q[1] * p[2]
RNe(p, q) == IsNaN(p) \/ IsNaN(q) \/ p # q
\* Python's max(a, b): b unless a > b is false ... max keeps the first maximal
RMax(p, q) == IF RGt(q, p) THEN q ELSE p

Max2(a, b) == IF a >= b THEN a ELSE b
Min2(a, b) == IF a <= b THEN a ELSE b

-----------------------------------------------------------------------------
(* Geometry.  A box is <<x1, y1, x2, y2>>: box[k] of the code is box[k+1]. *)

\* _boxesIntersect without its second test
_boxesIntersect_oneSided(a, b) ==
    IF a[1] > b[3] THEN FALSE
    ELSE IF a[4] < b[2] THEN FALSE
    ELSE IF a[2] > b[4] THEN FALSE
    ELSE TRUE

_boxesIntersect(a, b) ==
    IF a[1] > b[3] THEN FALSE        \* boxA is right of boxB
    ELSE IF b[1] > a[3] THEN FALSE   \* boxA is left of boxB
    ELSE IF a[4] < b[2] THEN FALSE   \* boxA is above boxB
    ELSE IF a[2] > b[4] THEN FALSE   \* boxA is below boxB
    ELSE TRUE

\* _getIntersectionArea without the + 1 of the pixel-edge convention
_getIntersectionArea_exclusive(a, b) ==
    LET xA == Max2(a[1], b[1])
        yA == Max2(a[2], b[2])
        xB == Min2(a[3], b[3])
        yB == Min2(a[4], b[4])
    IN  (xB - xA) * (yB - yA)

_getIntersectionArea(a, b) ==
    LET xA == Max2(a[1], b[1])
        yA == Max2(a[2], b[2])
        xB == Min2(a[3], b[3])
        yB == Min2(a[4], b[4])
    IN  (xB - xA + 1) * (yB - yA + 1)

_getArea(box) == (box[3] - box[1] + 1) * (box[4] - box[2] + 1)

_getUnionAreas(a, b, interArea) == _getArea(a) + _getArea(b) - interArea

\* The outcome of Evaluator.iou: [raised |-> "" , val |-> the IoU] or the
\* exception it raises (val is then meaningless and kept at NaN).
iou(a, b) ==
    IF ~_boxesIntersect(a, b) THEN [raised |-> "", val |-> Zero]
    ELSE LET interArea == _getIntersectionArea(a, b)
             union == _getUnionAreas(a, b, interArea)
         IN  IF union = 0
             THEN [raised |-> "ZeroDivisionError", val |-> NaN]
             ELSE IF ~RGe(Frac(interArea, union), Zero)
             THEN [raised |-> "AssertionError", val |-> NaN]
             ELSE [raised |-> "", val |-> Frac(interArea, union)]

-----------------------------------------------------------------------------
(* Average precision.  Sequences are 1-based: mrec[i] of the code is        *)
(* mrec[i + 1] here; the list ii keeps the code's 0-based indices.          *)

\* MonotonizeFrom whose loop never runs
MonotonizeFrom_skipped(mpre, k) == mpre

RECURSIVE MonotonizeFrom(_, _)
\* for i in range(len(mpre) - 1, 0, -1): mpre[i - 1] = max(mpre[i - 1], mpre[i])
\* (k is i + 1)
MonotonizeFrom(mpre, k) ==
    IF k < 2 THEN mpre
    ELSE MonotonizeFrom([mpre EXCEPT ![k - 1] = RMax(mpre[k - 1], mpre[k])], k - 1)

RECURSIVE TransitionsFrom(_, _)
\* for i in range(len(mrec) - 1): if mrec[1+i] != mrec[i]: ii.append(i + 1)
TransitionsFrom(mrec, i) ==
    IF i > Len(mrec) - 2 THEN <<>>
    ELSE (IF RNe(mrec[i + 2], mrec[i + 1]) THEN <<i + 1>> ELSE <<>>)
         \o TransitionsFrom(mrec, i + 1)

RECURSIVE SumArea(_, _, _)
\* for i in ii: ap = ap + np.sum((mrec[i] - mrec[i - 1]) * mpre[i])
SumArea(mrec, mpre, ii) ==
    IF ii = <<>> THEN Zero
    ELSE LET i == ii[Len(ii)]
         IN  RAdd(SumArea(mrec, mpre, SubSeq(ii, 1, Len(ii) - 1)),
                  RMul(RSub(mrec[i + 1], mrec[i]), mpre[i + 1]))

\* CalculateAveragePrecision with mpre.append(1) for the last sentinel
CalculateAveragePrecision_sentinelOne(r, p) ==
    LET mrec == <<Zero>> \o r \o <<One>>
        mpre == MonotonizeFrom(<<Zero>> \o p \o <<One>>, Len(p) + 2)
        ii == TransitionsFrom(mrec, 0)
    IN  [ap |-> SumArea(mrec, mpre, ii),
         mpre |-> SubSeq(mpre, 1, Len(mpre) - 1),
         mrec |-> SubSeq(mrec, 1, Len(mpre) - 1),
         ii |-> ii]

\* [ap, mpre[0:len(mpre) - 1], mrec[0:len(mpre) - 1], ii]
CalculateAveragePrecision(r, p) ==
    LET mrec == <<Zero>> \o r \o <<One>>
        mpre == MonotonizeFrom(<<Zero>> \o p \o <<Zero>>, Len(p) + 2)
        ii == TransitionsFrom(mrec, 0)
    IN  [ap |-> SumArea(mrec, mpre, ii),
         mpre |-> SubSeq(mpre, 1, Len(mpre) - 1),
         mrec |-> SubSeq(mrec, 1, Len(mpre) - 1),
         ii |-> ii]

\* list(np.linspace(0, 1, 11)[::-1]): 1.0, 0.9, ..., 0.0.  The floats of
\* linspace are the exact tenths at 0, 0.5 and 1, the only levels a recall
\* k/npos with npos <= 4 can be equal to.
recallValues ==
    <<<<1, 1>>, <<9, 10>>, <<4, 5>>, <<7, 10>>, <<3, 5>>, <<1, 2>>,
      <<2, 5>>, <<3, 10>>, <<1, 5>>, <<1, 10>>, <<0, 1>>>>

RECURSIVE MaxOfList(_)
\* Python's max() of a non-empty list
MaxOfList(s) ==
    IF Len(s) = 1 THEN s[1] ELSE RMax(MaxOfList(SubSeq(s, 1, Len(s) - 1)), s[Len(s)])

\* PMax with np.argwhere(mrec[:] > r)
PMax_strict(mrec, mpre, r) ==
    LET argGreaterRecalls == {i \in 1 .. Len(mrec) : RGt(mrec[i], r)}
    IN  IF argGreaterRecalls = {} THEN Zero
        ELSE LET first == CHOOSE i \in argGreaterRecalls :
                              \A j \in argGreaterRecalls : i <= j
             IN  MaxOfList(SubSeq(mpre, first, Len(mpre)))

\* argGreaterRecalls = np.argwhere(mrec[:] >= r); pmax = 0;
\* if argGreaterRecalls.size != 0: pmax = max(mpre[argGreaterRecalls.min():])
PMax(mrec, mpre, r) ==
    LET argGreaterRecalls == {i \in 1 .. Len(mrec) : RGe(mrec[i], r)}
    IN  IF argGreaterRecalls = {} THEN Zero
        ELSE LET first == CHOOSE i \in argGreaterRecalls :
                              \A j \in argGreaterRecalls : i <= j
             IN  MaxOfList(SubSeq(mpre, first, Len(mpre)))

RECURSIVE RhoInterpUpTo(_, _, _)
\* for r in recallValues: ...; rhoInterp.append(pmax)   (the first k levels)
RhoInterpUpTo(mrec, mpre, k) ==
    IF k = 0 THEN <<>>
    ELSE Append(RhoInterpUpTo(mrec, mpre, k - 1), PMax(mrec, mpre, recallValues[k]))

\* the list rhoInterp when the loop over recallValues has ended
RhoInterp(mrec, mpre) == RhoInterpUpTo(mrec, mpre, Len(recallValues))

RECURSIVE SumList(_)
SumList(s) == IF s = <<>> THEN Zero
              ELSE RAdd(SumList(SubSeq(s, 1, Len(s) - 1)), s[Len(s)])

InList(x, s) == \E i \in 1 .. Len(s) : s[i] = x

RECURSIVE PlotPoints(_, _, _, _)
\* for i in range(len(rvals)): the two points of step i, each appended to cc
\* unless it is already there; pvals[i - 1] is pvals[-1] when i = 0
PlotPoints(rvals, pvals, i, cc) ==
    IF i > Len(rvals) THEN cc
    ELSE LET p1 == <<rvals[i], pvals[IF i = 1 THEN Len(pvals) ELSE i - 1]>>
             c1 == IF InList(p1, cc) THEN cc ELSE Append(cc, p1)
             p2 == <<rvals[i], pvals[i]>>
             c2 == IF InList(p2, c1) THEN c1 ELSE Append(c1, p2)
         IN  PlotPoints(rvals, pvals, i + 1, c2)

RECURSIVE Column(_, _)
\* [i[0] for i in cc], [i[1] for i in cc]
Column(cc, k) ==
    IF cc = <<>> THEN <<>>
    ELSE Append(Column(SubSeq(cc, 1, Len(cc) - 1), k), cc[Len(cc)][k])

\* [ap, rhoInterp, recallValues, None]
ElevenPointInterpolatedAP(r, p) ==
    LET rhoInterp == RhoInterp(r, p)
        rvals == <<recallValues[1]>> \o recallValues \o <<Zero>>
        pvals == <<Zero>> \o rhoInterp \o <<Zero>>
        cc == PlotPoints(rvals, pvals, 1, <<>>)
    IN  [ap |-> RMul(SumList(rhoInterp), Frac(1, 11)),
         mpre |-> Column(cc, 2),
         mrec |-> Column(cc, 1),
         ii |-> <<>>]

-----------------------------------------------------------------------------
(* Bounds.                                                                 *)

MaxCoord == 2       \* box coordinates of the geometry check are 0..MaxCoord

Coords == 0 .. MaxCoord
AllBoxes == Coords \X Coords \X Coords \X Coords
WellFormed(box) == box[1] <= box[3] /\ box[2] <= box[4]

-----------------------------------------------------------------------------
(* Specification of one call of Evaluator.iou on any two boxes.            *)

IdleVoc ==
    /\ groundTruths = <<>> /\ detections = <<>>
    /\ IOUThreshold = Zero /\ method = "none"
    /\ ci = 0 /\ dects = <<>> /\ gts = <<>> /\ npos = 0
    /\ TP = <<>> /\ FP = <<>> /\ det = <<>> /\ d = 0 /\ jmax = 0
    /\ ret = <<>> /\ err = ""
IdleAP == rec = <<>> /\ prec = <<>> /\ apResult = <<>>
IdleIou == boxA = <<>> /\ boxB = <<>> /\ iouResult = <<>>
IdleRel ==
    /\ boundingboxes = <<>> /\ bb_image_gt = <<>> /\ bb_image_det = <<>>
    /\ detected_frames_lst = <<>>

InitIou ==
    /\ IdleVoc /\ IdleAP /\ IdleRel
    /\ pc = "iou"
    /\ boxA \in AllBoxes
    /\ boxB \in AllBoxes
    /\ iouResult = <<>>

CallIou ==
    /\ pc = "iou"
    /\ iouResult' = iou(boxA, boxB)
    /\ pc' = "iou_done"
    /\ UNCHANGED <<boxA, boxB>>
    /\ UNCHANGED vocVars /\ UNCHANGED apVars /\ UNCHANGED relVars

NextIou == CallIou
SpecIou == InitIou /\ [][NextIou]_vars

-----------------------------------------------------------------------------
(* Evaluator.GetPascalVOCMetrics.                                          *)
(* An entry of groundTruths or detections is <<imageName, class,           *)
(* confidence, box>>: g[0], g[1], g[2], g[3] of the code are g[1] .. g[4]. *)
(* Class labels are integers, so that sorted(classes) is the integer order.*)

MaxGT == 2          \* at most MaxGT ground-truth boxes in the input
MaxDet == 2         \* at most MaxDet detections in the input

\* The boxes of the inputs.  IoU: a box with itself 1, boxP with boxW 1/2,
\* boxZ with boxP and with boxW 0 (boxZ lies right of both).
boxP == <<0, 0, 1, 1>>
boxW == <<0, 0, 3, 1>>
boxZ == <<5, 0, 6, 1>>

\* The entries an input is made of; confidences are in tenths.
\* Ground truths: class 1 in two images, class 2 in one.
GTEntries ==
    {<<"img1", 1, 1, boxW>>, <<"img1", 1, 1, boxP>>,
     <<"img2", 1, 1, boxW>>, <<"img1", 2, 1, boxW>>}
\* Detections: class 1 in two images, class 2 in one; two confidences; boxes
\* that match a ground truth exactly, at IoU 1/2, or not at all.
DetEntries ==
    {<<"img1", 1, 9, boxP>>, <<"img1", 1, 7, boxP>>, <<"img1", 1, 9, boxW>>,
     <<"img1", 1, 7, boxZ>>, <<"img2", 1, 9, boxP>>,
     <<"img1", 2, 9, boxP>>, <<"img1", 2, 9, boxZ>>}
Thresholds == {Zero, Frac(1, 2)}
Methods == {"EveryPointInterpolation", "ElevenPointInterpolation"}

SeqsUpTo(S, n) == UNION {[1 .. k -> S] : k \in 0 .. n}

\* sys.float_info.min, the smallest positive normal float (2^-1022): below
\* every positive IoU and every positive threshold, above 0.
sys_float_info_min == <<1, 1000000>>

RECURSIVE SortedSeq(_)
\* sorted() of a set of integers
SortedSeq(S) ==
    IF S = {} THEN <<>>
    ELSE LET m == CHOOSE x \in S : \A y \in S : x <= y
         IN  <<m>> \o SortedSeq(S \ {m})

\* classes after the first loop and classes = sorted(classes)
classes ==
    SortedSeq({groundTruths[i][2] : i \in 1 .. Len(groundTruths)}
              \cup {detections[i][2] : i \in 1 .. Len(detections)})

RECURSIVE SelectClass(_, _)
\* [dects.append(d) for d in detections if d[1] == c]
SelectClass(s, c) ==
    IF s = <<>> THEN <<>>
    ELSE (IF Head(s)[2] = c THEN <<Head(s)>> ELSE <<>>) \o SelectClass(Tail(s), c)

\* x put behind every entry whose confidence is >= its own
InsertByConfidence(s, x) ==
    LET before == {i \in 1 .. Len(s) : s[i][3] < x[3]}
        k == IF before = {} THEN Len(s) + 1
             ELSE CHOOSE i \in before : \A j \in before : i <= j
    IN  SubSeq(s, 1, k - 1) \o <<x>> \o SubSeq(s, k, Len(s))

RECURSIVE SortByConfidence(_)
\* sorted(dects, key=lambda conf: conf[2], reverse=True): a stable sort
SortByConfidence(s) ==
    IF s = <<>> THEN <<>>
    ELSE InsertByConfidence(SortByConfidence(SubSeq(s, 1, Len(s) - 1)), s[Len(s)])

\* gts[g[0]] = gts.get(g[0], []) + [g] for every g of class c
GtsOfClass(c) ==
    LET mine == SelectClass(groundTruths, c)
        keys == {mine[i][1] : i \in 1 .. Len(mine)}
        RECURSIVE OfImage(_, _)
        OfImage(s, img) ==
            IF s = <<>> THEN <<>>
            ELSE (IF Head(s)[1] = img THEN <<Head(s)>> ELSE <<>>)
                 \o OfImage(Tail(s), img)
    IN  [img \in keys |-> OfImage(mine, img)]

Zeros(n) == [i \in 1 .. n |-> 0]

RECURSIVE BestMatch(_, _, _, _, _)
\* for j in range(len(gt)): iou = Evaluator.iou(...); if iou > iouMax: ...
\* (j is the code's j + 1; jm is jmax + 1, or 0 while jmax is not bound)
BestMatch(box, gt, j, iouMax, jm) ==
    IF j > Len(gt) THEN [iouMax |-> iouMax, jmax |-> jm, raised |-> ""]
    ELSE LET r == iou(box, gt[j][4])
         IN  IF r.raised # "" THEN [iouMax |-> iouMax, jmax |-> jm, raised |-> r.raised]
             ELSE IF RGt(r.val, iouMax) THEN BestMatch(box, gt, j + 1, r.val, j)
             ELSE BestMatch(box, gt, j + 1, iouMax, jm)

RECURSIVE Cumsum(_)
\* np.cumsum
Cumsum(s) ==
    IF s = <<>> THEN <<>>
    ELSE LET front == Cumsum(SubSeq(s, 1, Len(s) - 1))
         IN  Append(front, (IF front = <<>> THEN 0 ELSE front[Len(front)]) + s[Len(s)])

\* numpy's true division of one element: 0/0 is nan (a warning, no exception).
\* A positive count over 0 would be inf; no ground truth means no TP, so it
\* does not occur.
NpDivide(n, m) == IF m = 0 THEN NaN ELSE Frac(n, m)

RECURSIVE DivideEach(_, _)
\* acc_TP / npos, np.divide(acc_TP, acc_FP + acc_TP): element by element
DivideEach(s, t) ==
    IF s = <<>> THEN <<>>
    ELSE Append(DivideEach(SubSeq(s, 1, Len(s) - 1), SubSeq(t, 1, Len(t) - 1)),
                NpDivide(s[Len(s)], t[Len(t)]))

Sum01(s) == Cardinality({i \in 1 .. Len(s) : s[i] = 1})

InitVOC ==
    /\ IdleAP /\ IdleIou /\ IdleRel
    /\ groundTruths \in SeqsUpTo(GTEntries, MaxGT)
    /\ detections \in SeqsUpTo(DetEntries, MaxDet)
    /\ IOUThreshold \in Thresholds
    /\ method \in Methods
    /\ pc = "class"
    /\ ci = 1
    /\ dects = <<>> /\ gts = <<>> /\ npos = 0
    /\ TP = <<>> /\ FP = <<>> /\ det = <<>> /\ d = 0 /\ jmax = 0
    /\ ret = <<>> /\ err = ""

\* lines 82-99: the head of `for c in classes`
BeginClass ==
    /\ pc = "class"
    /\ ci <= Len(classes)
    /\ LET c == classes[ci]
           g == GtsOfClass(c)
           ds == SortByConfidence(SelectClass(detections, c))
       IN  /\ dects' = ds
           /\ gts' = g
           /\ npos' = Len(SelectClass(groundTruths, c))
           /\ TP' = Zeros(Len(ds))
           /\ FP' = Zeros(Len(ds))
           /\ det' = [key \in DOMAIN g |-> Zeros(Len(g[key]))]
    /\ d' = 1
    /\ pc' = "dets"
    /\ UNCHANGED <<groundTruths, detections, IOUThreshold, method, ci, jmax, ret, err>>
    /\ UNCHANGED apVars /\ UNCHANGED iouVars /\ UNCHANGED relVars

Outcome(tp, fp, seen, raised) == [tp |-> tp, fp |-> fp, seen |-> seen, raised |-> raised]

\* Assign without the else branch of `if det[dects[d][0]][jmax] == 0`
Assign_noElse(img, m) ==
    IF RGe(m.iouMax, IOUThreshold)
    THEN IF img \notin DOMAIN det THEN Outcome(0, 0, FALSE, "KeyError")
         ELSE IF m.jmax = 0 THEN Outcome(0, 0, FALSE, "UnboundLocalError")
         ELSE IF m.jmax > Len(det[img]) THEN Outcome(0, 0, FALSE, "IndexError")
         ELSE IF det[img][m.jmax] = 0 THEN Outcome(1, 0, TRUE, "")
         ELSE Outcome(0, 0, FALSE, "")
    ELSE Outcome(0, 1, FALSE, "")

\* Assign without the test of the 'seen' flag
Assign_noSeenTest(img, m) ==
    IF RGe(m.iouMax, IOUThreshold)
    THEN IF img \notin DOMAIN det THEN Outcome(0, 0, FALSE, "KeyError")
         ELSE IF m.jmax = 0 THEN Outcome(0, 0, FALSE, "UnboundLocalError")
         ELSE IF m.jmax > Len(det[img]) THEN Outcome(0, 0, FALSE, "IndexError")
         ELSE Outcome(1, 0, TRUE, "")
    ELSE Outcome(0, 1, FALSE, "")

\* lines 115-126: what becomes of the detection of image img once its best
\* match m is known: the values stored in TP[d] and FP[d], whether
\* det[dects[d][0]][jmax] is flagged, or the exception the lookup of
\* det[dects[d][0]][jmax] raises
Assign(img, m) ==
    IF RGe(m.iouMax, IOUThreshold)
    THEN IF img \notin DOMAIN det THEN Outcome(0, 0, FALSE, "KeyError")
         ELSE IF m.jmax = 0 THEN Outcome(0, 0, FALSE, "UnboundLocalError")
         ELSE IF m.jmax > Len(det[img]) THEN Outcome(0, 0, FALSE, "IndexError")
         ELSE IF det[img][m.jmax] = 0 THEN Outcome(1, 0, TRUE, "")
         ELSE Outcome(0, 1, FALSE, "")
    ELSE Outcome(0, 1, FALSE, "")

\* lines 103-126: one turn of `for d in range(len(dects))`
MatchDetection ==
    /\ pc = "dets"
    /\ d <= Len(dects)
    /\ LET img == dects[d][1]
           gt == IF img \in DOMAIN gts THEN gts[img] ELSE <<>>
           m == BestMatch(dects[d][4], gt, 1, sys_float_info_min, jmax)
           a == IF m.raised # "" THEN Outcome(0, 0, FALSE, m.raised)
                ELSE Assign(img, m)
       IN  /\ jmax' = m.jmax
           /\ TP' = [TP EXCEPT ![d] = a.tp]
           /\ FP' = [FP EXCEPT ![d] = a.fp]
           /\ det' = IF a.seen THEN [det EXCEPT ![img][m.jmax] = 1] ELSE det
           /\ IF a.raised = ""
              THEN d' = d + 1 /\ UNCHANGED <<pc, err>>
              ELSE d' = d /\ pc' = "raised" /\ err' = a.raised
    /\ UNCHANGED <<groundTruths, detections, IOUThreshold, method, ci, dects, gts,
                   npos, ret>>
    /\ UNCHANGED apVars /\ UNCHANGED iouVars /\ UNCHANGED relVars

\* lines 127-151: the curve, the average precision and the record of class c
FinishClass ==
    /\ pc = "dets"
    /\ d > Len(dects)
    /\ LET acc_FP == Cumsum(FP)
           acc_TP == Cumsum(TP)
       IN  \E r \in {DivideEach(acc_TP, [i \in 1 .. Len(dects) |-> npos])},
              p \in {DivideEach(acc_TP,
                                [i \in 1 .. Len(dects) |-> acc_FP[i] + acc_TP[i]])} :
             \E a \in {IF method = "EveryPointInterpolation"
                       THEN CalculateAveragePrecision(r, p)
                       ELSE ElevenPointInterpolatedAP(r, p)} :
                ret' = Append(ret, [class |-> classes[ci],
                                    precision |-> p,
                                    recall |-> r,
                                    AP |-> a.ap,
                                    interpolated_precision |-> a.mpre,
                                    interpolated_recall |-> a.mrec,
                                    total_positives |-> npos,
                                    total_TP |-> Sum01(TP),
                                    total_FP |-> Sum01(FP)])
    /\ ci' = ci + 1
    /\ pc' = "class"
    /\ UNCHANGED <<groundTruths, detections, IOUThreshold, method, dects, gts,
                   npos, TP, FP, det, d, jmax, err>>
    /\ UNCHANGED apVars /\ UNCHANGED iouVars /\ UNCHANGED relVars

\* line 152: return ret
ReturnVOC ==
    /\ pc = "class"
    /\ ci > Len(classes)
    /\ pc' = "done"
    /\ UNCHANGED vocVars
    /\ UNCHANGED apVars /\ UNCHANGED iouVars /\ UNCHANGED relVars

Next == BeginClass \/ MatchDetection \/ FinishClass \/ ReturnVOC
Spec == InitVOC /\ [][Next]_vars

-----------------------------------------------------------------------------
(* What the claims speak of, stated on the input and not on the code's     *)
(* working lists.  A ground truth is named by its position in groundTruths,*)
(* a detection of the running class by its position k in dects.            *)

InLoop == pc \in {"dets", "raised"}

\* ground truths of the class and image of detection x, in input order
Candidates(x) ==
    {i \in 1 .. Len(groundTruths) :
        groundTruths[i][1] = x[1] /\ groundTruths[i][2] = x[2]}

Overlap(x, i) == iou(x[4], groundTruths[i][4]).val

\* the candidate of the largest IoU, the first one of them on a tie
BestGt(x) ==
    CHOOSE i \in Candidates(x) :
        \A j \in Candidates(x) :
            \/ RGt(Overlap(x, i), Overlap(x, j))
            \/ Overlap(x, i) = Overlap(x, j) /\ i <= j

Matches(x) == Candidates(x) # {} /\ RGe(Overlap(x, BestGt(x)), IOUThreshold)

\* the detections the loop is through with
Handled == 1 .. (d - 1)

ClaimedBefore(k) ==
    \E k2 \in 1 .. (k - 1) :
        /\ TP[k2] = 1
        /\ Candidates(dects[k2]) # {}
        /\ BestGt(dects[k2]) = BestGt(dects[k])

ShouldBeTP(k) == Matches(dects[k]) /\ ~ClaimedBefore(k)

\* the 'seen' flag the code keeps for ground truth i
SeenFlag(i) ==
    LET img == groundTruths[i][1]
        pos == Cardinality({j \in 1 .. i : groundTruths[j][1] = img
                                           /\ groundTruths[j][2] = groundTruths[i][2]})
    IN  det[img][pos]

GtsOfRunningClass ==
    {i \in 1 .. Len(groundTruths) : groundTruths[i][2] = classes[ci]}

NumDets(c) == Cardinality({i \in 1 .. Len(detections) : detections[i][2] = c})
NumGts(c) == Cardinality({i \in 1 .. Len(groundTruths) : groundTruths[i][2] = c})

\* C1: every detection of a class, taken by decreasing confidence, is marked
\* TP exactly when its largest IoU with the ground truths of its class and
\* image reaches the threshold and the ground truth of that largest IoU (the
\* first one on a tie) was not claimed by an earlier detection, and that
\* ground truth is then claimed; every other detection is marked FP.
C1_GreedyMatchRule ==
    InLoop =>
        /\ \A k \in 1 .. (Len(dects) - 1) : dects[k][3] >= dects[k + 1][3]
        /\ pc = "raised" => TP[d] + FP[d] = 1
        /\ \A k \in Handled :
              /\ TP[k] = 1 <=> ShouldBeTP(k)
              /\ FP[k] = 1 <=> ~ShouldBeTP(k)
        /\ \A i \in GtsOfRunningClass :
              SeenFlag(i) = 1 <=>
                  \E k \in Handled : TP[k] = 1 /\ Matches(dects[k])
                                     /\ BestGt(dects[k]) = i

\* C1, for a positive threshold only: the same rule
C1_GreedyMatchRuleAboveZero == RGt(IOUThreshold, Zero) => C1_GreedyMatchRule

\* the detections of the running class whose best match is ground truth i,
\* with an IoU that reaches the threshold
Rivals(i) ==
    {k \in 1 .. Len(dects) : Matches(dects[k]) /\ BestGt(dects[k]) = i}

\* the first place of entry x in the input
InputPos(x) ==
    CHOOSE i \in 1 .. Len(detections) :
        detections[i] = x /\ \A j \in 1 .. (i - 1) : detections[j] # x

\* k comes before k2: higher confidence, or the same and earlier in the input
Precedes(k, k2) ==
    \/ dects[k][3] > dects[k2][3]
    \/ /\ dects[k][3] = dects[k2][3]
       /\ \/ InputPos(dects[k]) < InputPos(dects[k2])
          \/ InputPos(dects[k]) = InputPos(dects[k2]) /\ k < k2

LoopEnded == (pc = "dets" /\ d > Len(dects)) \/ pc = "raised"

\* C2: no ground truth has two TP detections, and of the detections of a
\* class that share a best match reaching the threshold, the one of the
\* highest confidence (the first of the input among equals) is the TP and
\* all the others are FP.
C2_DoubleClaimRule ==
    InLoop =>
        \A i \in GtsOfRunningClass :
            /\ Cardinality({k \in Rivals(i) : TP[k] = 1}) <= 1
            /\ (LoopEnded /\ Rivals(i) # {}) =>
                  LET w == CHOOSE k \in Rivals(i) :
                               \A k2 \in Rivals(i) \ {k} : Precedes(k, k2)
                  IN  /\ TP[w] = 1 /\ FP[w] = 0
                      /\ \A k \in Rivals(i) \ {w} : TP[k] = 0 /\ FP[k] = 1

\* C2, for a positive threshold only: the same rule
C2_DoubleClaimRuleAboveZero == RGt(IOUThreshold, Zero) => C2_DoubleClaimRule

\* C3: in every returned class record total TP + total FP is the number of
\* detections of the class: every detection is marked exactly one of TP, FP.
C3_EveryDetectionMarkedOnce ==
    /\ \A n \in 1 .. Len(ret) :
          ret[n].total_TP + ret[n].total_FP = NumDets(ret[n].class)
    /\ pc = "dets" =>
          /\ Len(TP) = NumDets(classes[ci]) /\ Len(FP) = NumDets(classes[ci])
          /\ \A k \in 1 .. Len(dects) :
                TP[k] + FP[k] = (IF k < d THEN 1 ELSE 0)

C3_Witness ==
    /\ pc = "done"
    /\ \E n \in 1 .. Len(ret) : ret[n].total_TP >= 1 /\ ret[n].total_FP >= 1

\* C4: for a class with a ground truth the recall sequence never decreases,
\* ends at total TP / total positives and stays within 1, total TP being at
\* most total positives: every TP flags one more ground truth of the class.
C4_RecallMonotoneBounded ==
    /\ \A n \in 1 .. Len(ret) :
          LET r == ret[n]
          IN  r.total_positives >= 1 =>
                 /\ Len(r.recall) = NumDets(r.class)
                 /\ \A k \in 1 .. (Len(r.recall) - 1) :
                       RGe(r.recall[k + 1], r.recall[k])
                 /\ \A k \in 1 .. Len(r.recall) :
                       RGe(r.recall[k], Zero) /\ RGe(One, r.recall[k])
                 /\ Len(r.recall) > 0 =>
                       r.recall[Len(r.recall)] = Frac(r.total_TP, r.total_positives)
                 /\ r.total_TP <= r.total_positives
    /\ pc = "dets" =>
          /\ Sum01(TP) = Cardinality({i \in GtsOfRunningClass : SeenFlag(i) = 1})
          /\ Sum01(TP) <= npos

C4_Witness ==
    /\ pc = "done"
    /\ \E n \in 1 .. Len(ret) :
          /\ ret[n].total_positives = 2
          /\ ret[n].recall = <<Frac(1, 2), One>>

\* C5: a class with detections and no ground truth makes the call raise
\* NoPositivesError; no record of such a class, with its undefined recall or
\* AP, is ever returned.
C5_NoPositivesError ==
    /\ \A n \in 1 .. Len(ret) :
          ~(NumDets(ret[n].class) >= 1 /\ NumGts(ret[n].class) = 0)
    /\ pc = "done" =>
          \A n \in 1 .. Len(classes) :
              ~(NumDets(classes[n]) >= 1 /\ NumGts(classes[n]) = 0)

\* C6: a class with ground truths and no detection raises nothing and gets a
\* record with empty precision and recall, no TP, no FP and AP 0, whichever
\* the interpolation method.
C6_NoDetectionsRecord ==
    /\ \A n \in 1 .. Len(ret) :
          NumDets(ret[n].class) = 0 =>
             /\ ret[n].precision = <<>> /\ ret[n].recall = <<>>
             /\ ret[n].total_TP = 0 /\ ret[n].total_FP = 0
             /\ ret[n].AP = Zero
    /\ pc = "raised" => NumDets(classes[ci]) >= 1
    /\ \A n \in 1 .. Len(classes) :
          (NumDets(classes[n]) = 0 /\ (ci > n \/ pc = "done")) =>
             Len(ret) >= n /\ ret[n].class = classes[n]

C6_Witness ==
    /\ pc = "done"
    /\ method = "ElevenPointInterpolation"
    /\ \E n \in 1 .. Len(ret) :
          NumDets(ret[n].class) = 0 /\ ret[n].total_positives = 2
    /\ \E n \in 1 .. Len(ret) : NumDets(ret[n].class) = 2

\* the largest precision among all points whose recall reaches lvl, 0 if none
LevelMax(rc, pr, lvl) ==
    LET Q == {j \in 1 .. Len(rc) : RGe(rc[j], lvl)}
    IN  IF Q = {} THEN Zero
        ELSE CHOOSE v \in {pr[j] : j \in Q} : \A j \in Q : RGe(v, pr[j])

RECURSIVE LevelMaxes(_, _, _)
\* LevelMax at the recall levels 10/10, 9/10, ... down to k/10, in that order
LevelMaxes(rc, pr, k) ==
    IF k > 10 THEN <<>>
    ELSE Append(LevelMaxes(rc, pr, k + 1), LevelMax(rc, pr, Frac(k, 10)))

RECURSIVE SumOf(_)
SumOf(s) == IF s = <<>> THEN Zero ELSE RAdd(Head(s), SumOf(Tail(s)))

\* C8: on a curve of the curve builder the 11-point AP is the mean of 11
\* values, one per recall level 1.0, 0.9, ..., 0.0, each the largest
\* precision among all points whose recall reaches the level (0 if none) and
\* each within [0, 1]; the code's maximum over the suffix that starts at the
\* first such point is the same value.
C8_ElevenPointMean ==
    (method = "ElevenPointInterpolation" /\ pc \in {"class", "done"}) =>
        \A n \in 1 .. Len(ret) :
            \A vals \in {LevelMaxes(ret[n].recall, ret[n].precision, 0)} :
                /\ Len(vals) = 11
                /\ \A k \in 1 .. 11 : RGe(vals[k], Zero) /\ RGe(One, vals[k])
                /\ RhoInterp(ret[n].recall, ret[n].precision) = vals
                /\ ret[n].AP = RMul(SumOf(vals), Frac(1, 11))

C8_Witness ==
    /\ pc = "done"
    /\ method = "ElevenPointInterpolation"
    /\ \E n \in 1 .. Len(ret) :
          /\ ret[n].recall = <<Frac(1, 2), Frac(1, 2)>>
          /\ ret[n].precision = <<One, Frac(1, 2)>>
          /\ ret[n].AP = Frac(6, 11)

-----------------------------------------------------------------------------
(* Specification of one call of Evaluator.CalculateAveragePrecision on any *)
(* recall/precision pair of a grid: equal lengths, recall non-decreasing   *)
(* in [0, 1].                                                              *)

MaxLen == 3         \* the sequences have at most MaxLen elements
MaxDen == 2         \* their elements are the fractions n/m, 0 <= n <= m <= MaxDen

Grid == UNION {{Frac(n, m) : n \in 0 .. m} : m \in 1 .. MaxDen}

NonDecreasing(s) == \A k \in 1 .. (Len(s) - 1) : RGe(s[k + 1], s[k])

InitAP ==
    /\ IdleVoc /\ IdleIou /\ IdleRel
    /\ pc = "ap"
    /\ \E n \in 0 .. MaxLen :
          /\ rec \in [1 .. n -> Grid]
          /\ prec \in [1 .. n -> Grid]
    /\ NonDecreasing(rec)
    /\ apResult = <<>>

CallCalculateAveragePrecision ==
    /\ pc = "ap"
    /\ apResult' = CalculateAveragePrecision(rec, prec)
    /\ pc' = "ap_done"
    /\ UNCHANGED <<rec, prec>>
    /\ UNCHANGED vocVars /\ UNCHANGED iouVars /\ UNCHANGED relVars

NextAP == CallCalculateAveragePrecision
SpecAP == InitAP /\ [][NextAP]_vars

\* the largest element of s from position i on
SuffixMax(s, i) ==
    CHOOSE v \in {s[j] : j \in i .. Len(s)} : \A j \in i .. Len(s) : RGe(v, s[j])

RECURSIVE StepArea(_, _, _)
\* the area under the step curve up to position i of the padded sequences
StepArea(mrec, mpre, i) ==
    IF i < 2 THEN Zero
    ELSE RAdd(StepArea(mrec, mpre, i - 1),
              IF mrec[i] # mrec[i - 1]
              THEN RMul(RSub(mrec[i], mrec[i - 1]), SuffixMax(mpre, i))
              ELSE Zero)

\* C7: CalculateAveragePrecision returns the area under the monotonized step
\* curve: with recall padded to [0, rec..., 1] and precision to
\* [0, prec..., 0], the sum over every position where the padded recall
\* changes of the recall step times the largest precision from there on; for
\* recall [1, 1] and precision [1, 0.5] that is 1.
C7_AllPointArea ==
    pc = "ap_done" =>
        /\ apResult.ap = StepArea(<<Zero>> \o rec \o <<One>>,
                                  <<Zero>> \o prec \o <<Zero>>, Len(rec) + 2)
        /\ (rec = <<One, One>> /\ prec = <<One, Frac(1, 2)>>) => apResult.ap = One

C7_Witness ==
    /\ pc = "ap_done"
    /\ rec = <<One, One>>
    /\ prec = <<One, Frac(1, 2)>>
    /\ apResult.ap = One

-----------------------------------------------------------------------------
(* Claims on Evaluator.iou, under SpecIou.                                 *)

\* C9: on two well-formed boxes iou raises nothing (no assertion failure, no
\* division by zero) and returns a value in [0, 1], which is 0 exactly when
\* _boxesIntersect is false.
C9_IouRange ==
    (pc = "iou_done" /\ WellFormed(boxA) /\ WellFormed(boxB)) =>
        /\ iouResult.raised = ""
        /\ RGe(iouResult.val, Zero)
        /\ RGe(One, iouResult.val)
        /\ iouResult.val = Zero <=> ~_boxesIntersect(boxA, boxB)

C9_Witness ==
    /\ pc = "iou_done"
    /\ WellFormed(boxA) /\ WellFormed(boxB)
    /\ boxA # boxB
    /\ _boxesIntersect(boxA, boxB)
    /\ RGt(iouResult.val, Zero) /\ RGt(One, iouResult.val)

\* C10: iou is symmetric: iou(a, b) and iou(b, a) are the same outcome for
\* any two boxes, and so are the two answers of _boxesIntersect.
C10_IouSymmetric ==
    pc = "iou_done" =>
        /\ iouResult = iou(boxB, boxA)
        /\ _boxesIntersect(boxA, boxB) = _boxesIntersect(boxB, boxA)

C10_Witness ==
    /\ pc = "iou_done"
    /\ boxA = <<0, 0, 1, 1>>
    /\ boxB = <<1, 0, 2, 2>>
    /\ iouResult = [raised |-> "", val |-> Frac(1, 4)]

Degenerate(box) == ~WellFormed(box)

\* C11: iou never raises, whatever the two boxes, boxes with x2 < x1 or
\* y2 < y1 included: no assertion failure and no division by zero; for boxes
\* that do not overlap and for degenerate boxes it returns the IoU 0.
C11_IouNeverRaises ==
    pc = "iou_done" =>
        /\ iouResult.raised = ""
        /\ (\/ ~_boxesIntersect(boxA, boxB)
            \/ Degenerate(boxA)
            \/ Degenerate(boxB)) => iouResult.val = Zero

-----------------------------------------------------------------------------
(* Evaluator.GetRelativeMetrics_F1.                                        *)
(* A bounding box of the input is <<imageName, classId, confidence, box,   *)
(* bbType>>.  Class ids are strings, as the code compares them with the    *)
(* strings of `classes`; confidences are in tenths.  The argument          *)
(* iou_threshold is kept in IOUThreshold.  A dictionary is a function of   *)
(* its keys; a result dictionary is a function of its key strings.         *)

MaxBB == 4          \* at most MaxBB bounding boxes in the input

\* classes = ['3', '6', '4', '8'] of both relative metrics
relClasses == <<"3", "6", "4", "8">>
\* the defaults confidence_gt=0.20 and confidence_det=0.20, in tenths
confidence_gt == 2
confidence_det == 2

\* The boxes an input of GetRelativeMetrics_F1 is made of: reference boxes
\* in two frames, one below confidence_gt, one of a class outside `classes`;
\* detections that match a reference exactly or not at all, one below
\* confidence_det, one of a class outside `classes`.
F1Entries ==
    {<<"img1", "3", 9, boxP, "GroundTruth">>,
     <<"img2", "3", 9, boxP, "GroundTruth">>,
     <<"img1", "3", 1, boxP, "GroundTruth">>,
     <<"img1", "1", 9, boxZ, "GroundTruth">>,
     <<"img1", "3", 9, boxP, "Detected">>,
     <<"img1", "3", 9, boxZ, "Detected">>,
     <<"img2", "3", 1, boxP, "Detected">>,
     <<"img2", "1", 9, boxP, "Detected">>}

\* bb.getClassId() in classes and bb.getConfidence() >= confidence_gt
KeepGT(bb) == InList(bb[2], relClasses) /\ bb[3] >= confidence_gt

\* KeepDet without the confidence test
KeepDet_anyConfidence(bb) == InList(bb[2], relClasses)

\* bb.getClassId() in classes and bb.getConfidence() >= confidence_det
KeepDet(bb) == InList(bb[2], relClasses) /\ bb[3] >= confidence_det

\* if imageName not in dict: dict[imageName] = []
WithKey(dict, imageName) ==
    IF imageName \in DOMAIN dict THEN dict ELSE dict @@ (imageName :> <<>>)

\* dict[imageName].append([classId, confidence, box])
AppendTo(dict, bb) ==
    [dict EXCEPT ![bb[1]] = Append(@, <<bb[2], bb[3], bb[4]>>)]

\* NoteDetected that skips the boxes the filter drops
NoteDetected_afterFilter(lst, bb) ==
    IF InList(bb[1], lst) \/ ~KeepDet(bb) THEN lst ELSE Append(lst, bb[1])

\* if imageName not in detected_frames_lst: detected_frames_lst.append(imageName)
NoteDetected(lst, bb) ==
    IF InList(bb[1], lst) THEN lst ELSE Append(lst, bb[1])

\* F1Keys that makes the key of bb_image_gt for reference boxes only
F1Keys_ofReferences(dict, bb) ==
    IF bb[5] = "GroundTruth" THEN WithKey(dict, bb[1]) ELSE dict

\* lines 519-520: every box, of either type, makes its image a key of
\* bb_image_gt
F1Keys(dict, bb) == WithKey(dict, bb[1])

RECURSIVE SeparateF1(_)
\* lines 516-540: `for bb in boundingboxes.getBoundingBoxes()`
SeparateF1(bbs) ==
    IF bbs = <<>> THEN [gt |-> <<>>, det |-> <<>>, lst |-> <<>>]
    ELSE LET before == SeparateF1(SubSeq(bbs, 1, Len(bbs) - 1))
             bb == bbs[Len(bbs)]
             g == F1Keys(before.gt, bb)
             dt == WithKey(before.det, bb[1])
         IN  IF bb[5] = "GroundTruth"
             THEN [gt |-> IF KeepGT(bb) THEN AppendTo(g, bb) ELSE g,
                   det |-> dt,
                   lst |-> before.lst]
             ELSE [gt |-> g,
                   det |-> IF KeepDet(bb) THEN AppendTo(dt, bb) ELSE dt,
                   lst |-> NoteDetected(before.lst, bb)]

\* `found` of lines 459-463 and 470-474: some box of others has an IoU with
\* box that reaches the threshold.  (The boxes of F1Entries are well formed,
\* so iou does not raise here.)
Found(box, others) ==
    \E k \in 1 .. Len(others) : RGe(iou(others[k][3], box).val, IOUThreshold)

CountFound(s, others) == Cardinality({k \in 1 .. Len(s) : Found(s[k][3], others)})

\* lines 454-483: [tp, fp, fn, count] of one image
ImageStats(bb_gts, bb_dets) ==
    [tp |-> CountFound(bb_dets, bb_gts),
     fp |-> Len(bb_dets) - CountFound(bb_dets, bb_gts),
     fn |-> Len(bb_gts) - CountFound(bb_gts, bb_dets),
     count |-> Len(bb_gts)]

RECURSIVE SumStats(_, _, _)
\* tp_list, fp_list, fn_list, count_list of `for imageName in bb_image_gt`,
\* summed (lines 488-491); bb_image_det[imageName] raises KeyError if the
\* image is no key of bb_image_det
SumStats(images, gt, dt) ==
    IF images = {} THEN [tp |-> 0, fp |-> 0, fn |-> 0, count |-> 0, raised |-> ""]
    ELSE LET imageName == CHOOSE x \in images : TRUE
             rest == SumStats(images \ {imageName}, gt, dt)
         IN  IF imageName \notin DOMAIN dt
             THEN [tp |-> 0, fp |-> 0, fn |-> 0, count |-> 0, raised |-> "KeyError"]
             ELSE LET st == ImageStats(gt[imageName], dt[imageName])
                  IN  [tp |-> rest.tp + st.tp, fp |-> rest.fp + st.fp,
                       fn |-> rest.fn + st.fn, count |-> rest.count + st.count,
                       raised |-> rest.raised]

\* round(n / m, 3) for m > 0, as a number of thousandths.  A quotient that
\* lies exactly between two thousandths needs a denominator divisible by 16,
\* beyond the counts of the model, so the rounding rule for ties (and the
\* binary representation of such a quotient) plays no part.
round3(n, m) == Frac((2000 * n + m) \div (2 * m), 1000)

\* lines 443-496: the returned tuple as a dictionary, or the exception.
\* tp/(tp+fp) and tp/(tp+fn) divide Python ints, 2.0*tp/(2.0*tp+fp+fn)
\* divides Python floats: each raises ZeroDivisionError on a zero denominator.
_evaluate(gt, dt) ==
    LET t == SumStats(DOMAIN gt, gt, dt)
    IN  IF t.raised # "" THEN [raised |-> t.raised]
        ELSE IF t.tp + t.fp = 0 THEN [raised |-> "ZeroDivisionError"]
        ELSE IF t.tp + t.fn = 0 THEN [raised |-> "ZeroDivisionError"]
        ELSE IF 2 * t.tp + t.fp + t.fn = 0 THEN [raised |-> "ZeroDivisionError"]
        ELSE [raised |-> "",
              val |-> ("total TP" :> t.tp) @@ ("total FP" :> t.fp)
                      @@ ("total FN" :> t.fn) @@ ("total COUNT" :> t.count)
                      @@ ("precision" :> round3(t.tp, t.tp + t.fp))
                      @@ ("recall" :> round3(t.tp, t.tp + t.fn))
                      @@ ("F1" :> round3(2 * t.tp, 2 * t.tp + t.fp + t.fn))]

\* lines 569-574: the entries of dict whose image is in detected_frames_lst
DetectedOnly(dict) ==
    [imageName \in {k \in DOMAIN bb_image_gt : InList(k, detected_frames_lst)}
        |-> dict[imageName]]

restVoc == <<groundTruths, detections, method, ci, dects, gts, npos, TP, FP,
             det, d, jmax>>

InitF1 ==
    /\ IdleAP /\ IdleIou
    /\ groundTruths = <<>> /\ detections = <<>> /\ method = "none"
    /\ ci = 0 /\ dects = <<>> /\ gts = <<>> /\ npos = 0
    /\ TP = <<>> /\ FP = <<>> /\ det = <<>> /\ d = 0 /\ jmax = 0
    /\ boundingboxes \in SeqsUpTo(F1Entries, MaxBB)
    /\ IOUThreshold \in Thresholds
    /\ bb_image_gt = <<>> /\ bb_image_det = <<>> /\ detected_frames_lst = <<>>
    /\ ret = <<>> /\ err = ""
    /\ pc = "f1"

\* lines 500-540: the boxes are separated per image and filtered
F1Separate ==
    /\ pc = "f1"
    /\ \E sp \in {SeparateF1(boundingboxes)} :
          /\ bb_image_gt' = sp.gt
          /\ bb_image_det' = sp.det
          /\ detected_frames_lst' = sp.lst
    /\ pc' = "f1_total"
    /\ UNCHANGED <<boundingboxes, IOUThreshold, ret, err>>
    /\ UNCHANGED restVoc /\ UNCHANGED apVars /\ UNCHANGED iouVars

\* lines 556-566: total_ret
F1Total ==
    /\ pc = "f1_total"
    /\ \E r \in {_evaluate(bb_image_gt, bb_image_det)} :
          IF r.raised # ""
          THEN pc' = "f1_raised" /\ err' = r.raised /\ ret' = ret
          ELSE pc' = "f1_detected" /\ err' = err
               /\ ret' = ("All Frames F1" :> r.val)
    /\ UNCHANGED <<IOUThreshold>>
    /\ UNCHANGED restVoc /\ UNCHANGED apVars /\ UNCHANGED iouVars /\ UNCHANGED relVars

\* lines 568-586: detected_ret
F1Detected ==
    /\ pc = "f1_detected"
    /\ \E r \in {_evaluate(DetectedOnly(bb_image_gt), DetectedOnly(bb_image_det))} :
          IF r.raised # ""
          THEN pc' = "f1_raised" /\ err' = r.raised /\ ret' = ret
          ELSE pc' = "f1_stats" /\ err' = err
               /\ ret' = ret @@ ("Detected Frames F1" :> r.val)
    /\ UNCHANGED <<IOUThreshold>>
    /\ UNCHANGED restVoc /\ UNCHANGED apVars /\ UNCHANGED iouVars /\ UNCHANGED relVars

\* lines 588-590: ret with its "Stats" and return ret
F1Return ==
    /\ pc = "f1_stats"
    /\ ret' = ret @@ ("Stats" :>
                        (("Total Frames" :> Cardinality(DOMAIN bb_image_gt))
                         @@ ("Detected Frames" :> Len(detected_frames_lst))))
    /\ pc' = "f1_done"
    /\ UNCHANGED <<IOUThreshold, err>>
    /\ UNCHANGED restVoc /\ UNCHANGED apVars /\ UNCHANGED iouVars /\ UNCHANGED relVars

NextF1 == F1Separate \/ F1Total \/ F1Detected \/ F1Return
SpecF1 == InitF1 /\ [][NextF1]_vars

-----------------------------------------------------------------------------
(* What the claims on GetRelativeMetrics_F1 speak of, stated on the input. *)
(* A box is named by its position in boundingboxes.                        *)

Boxes == 1 .. Len(boundingboxes)
IsRef(i) == boundingboxes[i][5] = "GroundTruth"
Whitelisted(i) == boundingboxes[i][2] \in {relClasses[k] : k \in 1 .. Len(relClasses)}
Frame(i) == boundingboxes[i][1]
Frames == {Frame(i) : i \in Boxes}

\* the reference boxes and the detections that survive the filter
KeptRefs == {i \in Boxes : IsRef(i) /\ Whitelisted(i)
                           /\ boundingboxes[i][3] >= confidence_gt}
KeptDets == {i \in Boxes : ~IsRef(i) /\ Whitelisted(i)
                           /\ boundingboxes[i][3] >= confidence_det}

Reaches(i, j) ==
    /\ Frame(i) = Frame(j)
    /\ RGe(iou(boundingboxes[i][4], boundingboxes[j][4]).val, IOUThreshold)

\* the counts of the claim over the frames of F
TPOver(F) == Cardinality({j \in KeptDets : Frame(j) \in F
                                           /\ \E i \in KeptRefs : Reaches(i, j)})
FPOver(F) == Cardinality({j \in KeptDets : Frame(j) \in F
                                           /\ ~\E i \in KeptRefs : Reaches(i, j)})
FNOver(F) == Cardinality({i \in KeptRefs : Frame(i) \in F
                                           /\ ~\E j \in KeptDets : Reaches(i, j)})

CountsOver(variant, F) ==
    /\ ret[variant]["total TP"] = TPOver(F)
    /\ ret[variant]["total FP"] = FPOver(F)
    /\ ret[variant]["total FN"] = FNOver(F)

HasAllFrames == pc \in {"f1_detected", "f1_stats", "f1_done"}
HasDetectedFrames == pc \in {"f1_stats", "f1_done"}

\* two frames with one reference box each; the detector has the box of the
\* reference of img1 and nothing in img2
TwoFramesOneMatched ==
    /\ Len(boundingboxes) = 3
    /\ \E i, j, k \in Boxes :
          /\ boundingboxes[i] = <<"img1", "3", 9, boxP, "GroundTruth">>
          /\ boundingboxes[j] = <<"img2", "3", 9, boxP, "GroundTruth">>
          /\ boundingboxes[k] = <<"img1", "3", 9, boxP, "Detected">>

\* C12: GetRelativeMetrics_F1 keeps the boxes of the whitelisted classes
\* whose confidence is >= confidence_gt (reference) or >= confidence_det
\* (evaluated detector); a kept detection is a TP if its IoU with some kept
\* reference box of its image reaches the threshold and an FP otherwise, a
\* kept reference box is an FN if no kept detection of its image reaches the
\* threshold with it, and the totals add these up over the images.  With
\* two frames of one reference box each and one detection, equal to the
\* reference of the first frame, 'All Frames F1' is TP 1, FP 0, FN 1,
\* precision 1.0, recall 0.5, F1 0.667 and 'Detected Frames F1' is
\* precision, recall and F1 1.0.
C12_F1Counts ==
    /\ HasAllFrames => CountsOver("All Frames F1", Frames)
    /\ TwoFramesOneMatched =>
          /\ pc # "f1_raised"
          /\ HasAllFrames =>
                /\ ret["All Frames F1"]["total TP"] = 1
                /\ ret["All Frames F1"]["total FP"] = 0
                /\ ret["All Frames F1"]["total FN"] = 1
                /\ ret["All Frames F1"]["precision"] = One
                /\ ret["All Frames F1"]["recall"] = Frac(1, 2)
                /\ ret["All Frames F1"]["F1"] = Frac(667, 1000)
          /\ HasDetectedFrames =>
                /\ ret["Detected Frames F1"]["precision"] = One
                /\ ret["Detected Frames F1"]["recall"] = One
                /\ ret["Detected Frames F1"]["F1"] = One

C12_Witness ==
    /\ pc = "f1_done"
    /\ TwoFramesOneMatched
    /\ IOUThreshold = Frac(1, 2)
    /\ ret["All Frames F1"]["F1"] = Frac(667, 1000)
    /\ ret["Detected Frames F1"]["F1"] = One

\* the frames in which the evaluated detector has a box, of any class and
\* confidence, and those in which it has a box that survives the filter
FramesWithDetection == {Frame(j) : j \in {b \in Boxes : ~IsRef(b)}}
FramesWithKeptDetection == {Frame(j) : j \in KeptDets}

CountOver(F) == Cardinality({i \in KeptRefs : Frame(i) \in F})

\* C13 as stated: 'Detected Frames F1' is computed over exactly the frames
\* in which the evaluated detector has at least one detection that survives
\* the filter (whitelisted class, confidence >= confidence_det); a frame
\* whose only detections are dropped by the filter is excluded.
C13_DetectedFramesAfterFilter ==
    HasDetectedFrames =>
        /\ CountsOver("Detected Frames F1", FramesWithKeptDetection)
        /\ ret["Detected Frames F1"]["total COUNT"] = CountOver(FramesWithKeptDetection)

\* C13, amended: 'Detected Frames F1' is computed over exactly the frames
\* in which the evaluated detector has at least one box in the input,
\* whatever its class and confidence; a frame whose only detections are
\* dropped by the filter is included, with its reference boxes and no
\* detection.
C13_DetectedFramesBeforeFilter ==
    HasDetectedFrames =>
        /\ CountsOver("Detected Frames F1", FramesWithDetection)
        /\ ret["Detected Frames F1"]["total COUNT"] = CountOver(FramesWithDetection)

\* img2 has a reference box and only a detection below confidence_det: its
\* reference box is an FN of 'Detected Frames F1'
C13_Witness ==
    /\ pc = "f1_done"
    /\ "img2" \in FramesWithDetection \ FramesWithKeptDetection
    /\ CountOver({"img2"}) = 1
    /\ ret["Detected Frames F1"]["total FN"] = 1
    /\ ret["Detected Frames F1"]["total COUNT"] = 2
    /\ FNOver(FramesWithKeptDetection) = 0

\* one of the denominators TP+FP, TP+FN, 2TP+FP+FN over the frames of F is 0
ZeroDenominator(F) ==
    \/ TPOver(F) + FPOver(F) = 0
    \/ TPOver(F) + FNOver(F) = 0
    \/ 2 * TPOver(F) + FPOver(F) + FNOver(F) = 0

\* C14: when a denominator of precision, recall or F1 is zero in a variant,
\* GetRelativeMetrics_F1 does not return; the failure it reports is an
\* UndefinedMetricError naming the metric, not a generic division fault.
C14_UndefinedMetricError ==
    /\ (pc \notin {"f1", "f1_total"} /\ ZeroDenominator(Frames)) => pc = "f1_raised"
    /\ (HasDetectedFrames /\ ZeroDenominator(FramesWithDetection)) => pc = "f1_raised"
    /\ pc = "f1_raised" => err \notin {"ZeroDivisionError", ""}

-----------------------------------------------------------------------------
(* Evaluator.GetRelativeMetrics_mAP.                                       *)
(* The input is as for GetRelativeMetrics_F1.  bb_image_gt and             *)
(* bb_image_det are iterated, so a dictionary is here the sequence of its  *)
(* <<key, value>> pairs in insertion order.  groundTruths, detections and  *)
(* the locals of the inner _evaluate are the variables of the same names;  *)
(* iou_threshold is kept in IOUThreshold.                                  *)

\* Reference boxes of two whitelisted classes in two frames, one below
\* confidence_gt; detections of both classes, one below confidence_det, one
\* of a class outside `classes`.
MapEntries ==
    {<<"img1", "3", 9, boxP, "GroundTruth">>,
     <<"img2", "3", 9, boxP, "GroundTruth">>,
     <<"img1", "4", 9, boxW, "GroundTruth">>,
     <<"img1", "3", 1, boxP, "GroundTruth">>,
     <<"img1", "3", 9, boxP, "Detected">>,
     <<"img1", "3", 7, boxZ, "Detected">>,
     <<"img2", "4", 9, boxP, "Detected">>,
     <<"img2", "3", 1, boxP, "Detected">>,
     <<"img1", "1", 9, boxP, "Detected">>}

\* sorted(classes): the order of the strings '3', '6', '4', '8'
sortedRelClasses == <<"3", "4", "6", "8">>

\* imageName in dict
HasKey(dict, imageName) == \E k \in 1 .. Len(dict) : dict[k][1] = imageName

\* dict[imageName]
Lookup(dict, imageName) ==
    dict[CHOOSE k \in 1 .. Len(dict) : dict[k][1] = imageName][2]

\* if imageName not in dict: dict[imageName] = []
WithKeyLast(dict, imageName) ==
    IF HasKey(dict, imageName) THEN dict ELSE Append(dict, <<imageName, <<>>>>)

\* dict[imageName].append(entry)
AppendAt(dict, imageName, entry) ==
    [k \in 1 .. Len(dict) |->
        IF dict[k][1] = imageName THEN <<imageName, Append(dict[k][2], entry)>>
        ELSE dict[k]]

RECURSIVE SeparateMAP(_)
\* lines 692-717: `for bb in boundingboxes.getBoundingBoxes()`; a reference
\* box is stored with the confidence 1
SeparateMAP(bbs) ==
    IF bbs = <<>> THEN [gt |-> <<>>, det |-> <<>>]
    ELSE LET before == SeparateMAP(SubSeq(bbs, 1, Len(bbs) - 1))
             bb == bbs[Len(bbs)]
         IN  IF bb[5] = "GroundTruth"
             THEN LET g == WithKeyLast(before.gt, bb[1])
                  IN  [gt |-> IF KeepGT(bb)
                              THEN AppendAt(g, bb[1], <<bb[1], bb[2], 1, bb[4]>>)
                              ELSE g,
                       det |-> before.det]
             ELSE LET dt == WithKeyLast(before.det, bb[1])
                  IN  [gt |-> before.gt,
                       det |-> IF KeepDet(bb)
                               THEN AppendAt(dt, bb[1], <<bb[1], bb[2], bb[3], bb[4]>>)
                               ELSE dt]

RECURSIVE Collect(_, _, _)
\* lines 725-727: `for imageName in bb_image_det` from its k-th key on;
\* bb_image_gt[imageName] raises KeyError if the image is no key of it
Collect(k, gtDict, detDict) ==
    IF k > Len(detDict) THEN [groundTruths |-> <<>>, detections |-> <<>>, raised |-> ""]
    ELSE IF ~HasKey(gtDict, detDict[k][1])
    THEN [groundTruths |-> <<>>, detections |-> <<>>, raised |-> "KeyError"]
    ELSE LET rest == Collect(k + 1, gtDict, detDict)
         IN  [groundTruths |-> Lookup(gtDict, detDict[k][1]) \o rest.groundTruths,
              detections |-> detDict[k][2] \o rest.detections,
              raised |-> rest.raised]

InitMAP ==
    /\ IdleAP /\ IdleIou
    /\ boundingboxes \in SeqsUpTo(MapEntries, MaxBB)
    /\ IOUThreshold \in Thresholds
    /\ bb_image_gt = <<>> /\ bb_image_det = <<>> /\ detected_frames_lst = <<>>
    /\ groundTruths = <<>> /\ detections = <<>> /\ method = "none"
    /\ ci = 0 /\ dects = <<>> /\ gts = <<>> /\ npos = 0
    /\ TP = <<>> /\ FP = <<>> /\ det = <<>> /\ d = 0 /\ jmax = 0
    /\ ret = <<>> /\ err = ""
    /\ pc = "map"

\* lines 677-717: the boxes are separated per image and filtered
MapSeparate ==
    /\ pc = "map"
    /\ \E sp \in {SeparateMAP(boundingboxes)} :
          /\ bb_image_gt' = sp.gt
          /\ bb_image_det' = sp.det
    /\ pc' = "map_collect"
    /\ UNCHANGED <<boundingboxes, detected_frames_lst>>
    /\ UNCHANGED vocVars /\ UNCHANGED apVars /\ UNCHANGED iouVars

\* lines 719-727: groundTruths and detections of the frames of bb_image_det
MapCollect ==
    /\ pc = "map_collect"
    /\ \E c \in {Collect(1, bb_image_gt, bb_image_det)} :
          IF c.raised # ""
          THEN /\ pc' = "map_raised" /\ err' = c.raised
               /\ UNCHANGED <<groundTruths, detections, ci>>
          ELSE /\ groundTruths' = c.groundTruths
               /\ detections' = c.detections
               /\ ci' = 1
               /\ pc' = "class" /\ err' = err
    /\ UNCHANGED <<IOUThreshold, method, dects, gts, npos, TP, FP, det, d, jmax, ret>>
    /\ UNCHANGED apVars /\ UNCHANGED iouVars /\ UNCHANGED relVars

\* lines 601-620: the head of `for c in classes` of the inner _evaluate
MapBeginClass ==
    /\ pc = "class"
    /\ ci <= Len(sortedRelClasses)
    /\ LET c == sortedRelClasses[ci]
           g == GtsOfClass(c)
           ds == SortByConfidence(SelectClass(detections, c))
       IN  /\ dects' = ds
           /\ gts' = g
           /\ npos' = Len(SelectClass(groundTruths, c))
           /\ TP' = Zeros(Len(ds))
           /\ FP' = Zeros(Len(ds))
           /\ det' = [key \in DOMAIN g |-> Zeros(Len(g[key]))]
    /\ d' = 1
    /\ pc' = "dets"
    /\ UNCHANGED <<groundTruths, detections, IOUThreshold, method, ci, jmax, ret, err>>
    /\ UNCHANGED apVars /\ UNCHANGED iouVars /\ UNCHANGED relVars

\* lines 624-647: one turn of `for d in range(len(dects))`, statement for
\* statement the loop body of GetPascalVOCMetrics with iou_threshold for
\* IOUThreshold
MapMatchDetection == MatchDetection

\* lines 648-671: the curve, the every-point average precision and the
\* record of class c
MapFinishClass ==
    /\ pc = "dets"
    /\ d > Len(dects)
    /\ LET acc_FP == Cumsum(FP)
           acc_TP == Cumsum(TP)
       IN  \E r \in {DivideEach(acc_TP, [i \in 1 .. Len(dects) |-> npos])},
              p \in {DivideEach(acc_TP,
                                [i \in 1 .. Len(dects) |-> acc_FP[i] + acc_TP[i]])} :
             \E a \in {CalculateAveragePrecision(r, p)} :
                ret' = Append(ret, ("class" :> sortedRelClasses[ci])
                                   @@ ("AP" :> a.ap)
                                   @@ ("total positives" :> npos)
                                   @@ ("total TP" :> Sum01(TP))
                                   @@ ("total FP" :> Sum01(FP)))
    /\ ci' = ci + 1
    /\ pc' = "class"
    /\ UNCHANGED <<groundTruths, detections, IOUThreshold, method, dects, gts,
                   npos, TP, FP, det, d, jmax, err>>
    /\ UNCHANGED apVars /\ UNCHANGED iouVars /\ UNCHANGED relVars

RECURSIVE SumAP(_)
\* mAP = 0; for class_ap in ret: mAP += class_ap["AP"]
SumAP(records) ==
    IF records = <<>> THEN Zero
    ELSE RAdd(SumAP(SubSeq(records, 1, Len(records) - 1)),
              records[Len(records)]["AP"])

\* lines 733-741: the aggregate record is appended to the list the inner
\* _evaluate returned.  (The function ends here: it has no return statement.)
MapAggregate ==
    /\ pc = "class"
    /\ ci > Len(sortedRelClasses)
    /\ IF Len(ret) # Len(relClasses)
       THEN pc' = "map_raised" /\ err' = "AssertionError" /\ ret' = ret
       ELSE /\ ret' = Append(ret, ("mAP" :> RMul(SumAP(ret), Frac(1, Len(ret))))
                                  @@ ("classes" :> Len(ret)))
            /\ pc' = "map_done" /\ err' = err
    /\ UNCHANGED <<groundTruths, detections, IOUThreshold, method, ci, dects, gts,
                   npos, TP, FP, det, d, jmax>>
    /\ UNCHANGED apVars /\ UNCHANGED iouVars /\ UNCHANGED relVars

NextMAP ==
    \/ MapSeparate \/ MapCollect \/ MapBeginClass \/ MapMatchDetection
    \/ MapFinishClass \/ MapAggregate
SpecMAP == InitMAP /\ [][NextMAP]_vars

-----------------------------------------------------------------------------
(* What the claims on GetRelativeMetrics_mAP speak of, stated on the input.*)

AsRef(i) == <<Frame(i), boundingboxes[i][2], 1, boundingboxes[i][4]>>
AsDet(i) == <<Frame(i), boundingboxes[i][2], boundingboxes[i][3], boundingboxes[i][4]>>
Occurrences(s, e) == Cardinality({k \in 1 .. Len(s) : s[k] = e})

\* the kept boxes of the frames in which the detector has a box
EvaluatedRefs == {i \in KeptRefs : Frame(i) \in FramesWithDetection}
EvaluatedDets == {j \in KeptDets : Frame(j) \in FramesWithDetection}

Collected == pc \in {"class", "dets", "raised", "map_done"}

\* C15: GetRelativeMetrics_mAP runs the per-class AP pipeline on exactly the
\* filtered reference boxes and the filtered detections of the frames in
\* which the evaluated detector has at least one detection; frames without
\* a detection contribute nothing; a frame with detections and no reference
\* box at all contributes its detections and no reference box, and the call
\* does not fail on it.
C15_EvaluatedFrames ==
    /\ pc # "map_raised"
    /\ Collected =>
          /\ Len(groundTruths) = Cardinality(EvaluatedRefs)
          /\ Len(detections) = Cardinality(EvaluatedDets)
          /\ \A i \in Boxes :
                /\ Occurrences(groundTruths, AsRef(i))
                     = Cardinality({r \in EvaluatedRefs : AsRef(r) = AsRef(i)})
                /\ Occurrences(detections, AsDet(i))
                     = Cardinality({r \in EvaluatedDets : AsDet(r) = AsDet(i)})

\* the classes that have a reference instance in the evaluated set, and the
\* records of the classes among them
ClassesWithReference == {groundTruths[i][2] : i \in 1 .. Len(groundTruths)}

RECURSIVE OnlyWithReference(_)
OnlyWithReference(records) ==
    IF records = <<>> THEN <<>>
    ELSE (IF Head(records)["class"] \in ClassesWithReference
          THEN <<Head(records)>> ELSE <<>>) \o OnlyWithReference(Tail(records))

\* C16: the aggregate record holds the arithmetic mean of the AP of the
\* classes that have at least one reference instance in the evaluated set,
\* and the number of those classes; a whitelisted class without a reference
\* box enters neither the mean nor the count.
C16_MeanOverClassesWithReference ==
    (pc = "map_done" /\ ClassesWithReference # {}) =>
        LET averaged == OnlyWithReference(SubSeq(ret, 1, Len(ret) - 1))
        IN  /\ ret[Len(ret)]["classes"] = Cardinality(ClassesWithReference)
            /\ ret[Len(ret)]["classes"] = Len(averaged)
            /\ ret[Len(ret)]["mAP"] = RMul(SumAP(averaged), Frac(1, Len(averaged)))

-----------------------------------------------------------------------------
(* The matcher of GetPascalVOCMetrics at every threshold of [0, 1].        *)

\* x has no candidate, or an IoU of 0 with every candidate: the loop over
\* the candidates leaves iouMax at sys.float_info.min and binds no jmax
NoPositiveCandidate(x) == \A i \in Candidates(x) : Overlap(x, i) = Zero

\* the turn of the detection loop that is about to run evaluates
\* det[dects[d][0]][jmax] with a jmax that this turn has not bound
ReadsLeftoverJmax ==
    /\ pc = "dets" /\ d <= Len(dects)
    /\ NoPositiveCandidate(dects[d])
    /\ RGe(sys_float_info_min, IOUThreshold)

\* C17: at every IoU threshold of [0, 1], 0 included, a detection whose
\* image has no ground truth of its class, or whose IoU is 0 with every
\* candidate, is handled without an exception and without reading a jmax
\* left by an earlier detection or class; with no candidate at all it is
\* marked FP and no 'seen' flag changes.
C17_NoCandidateHandled ==
    /\ pc # "raised"
    /\ ~ReadsLeftoverJmax
    /\ InLoop => \A k \in Handled :
          Candidates(dects[k]) = {} => (FP[k] = 1 /\ TP[k] = 0)

-----------------------------------------------------------------------------
(* The returned dictionary of GetRelativeMetrics_F1 as a whole.            *)

CountFields == {"total TP", "total FP", "total FN", "total COUNT"}

\* C18: whenever GetRelativeMetrics_F1 returns, each of 'total TP',
\* 'total FP', 'total FN', 'total COUNT' of 'Detected Frames F1' is at most
\* the same field of 'All Frames F1', 'total FN' is at most 'total COUNT'
\* in both, and 'Detected Frames' of 'Stats' is at most 'Total Frames'.
C18_DetectedWithinAll ==
    pc = "f1_done" =>
        /\ \A f \in CountFields :
              ret["Detected Frames F1"][f] <= ret["All Frames F1"][f]
        /\ ret["All Frames F1"]["total FN"] <= ret["All Frames F1"]["total COUNT"]
        /\ ret["Detected Frames F1"]["total FN"]
             <= ret["Detected Frames F1"]["total COUNT"]
        /\ ret["Stats"]["Detected Frames"] <= ret["Stats"]["Total Frames"]

\* a frame without any detection holds a missed reference box: the two
\* variants and the two frame counts differ
C18_Witness ==
    /\ pc = "f1_done"
    /\ ret["Stats"]["Detected Frames"] < ret["Stats"]["Total Frames"]
    /\ ret["Detected Frames F1"]["total FN"] < ret["All Frames F1"]["total FN"]
    /\ ret["Detected Frames F1"]["total COUNT"] < ret["All Frames F1"]["total COUNT"]
    /\ ret["Detected Frames F1"]["total FP"] = 1
    /\ ret["All Frames F1"]["total FN"] = ret["All Frames F1"]["total COUNT"]

====
